---- MODULE Spec2Model ----
(***************************************************************************)
(* Model of src/src/utils/object.ts: deepClone, pick, omit, isObject,      *)
(* deepMerge, flattenObject and fromEntries over a JavaScript heap.        *)
(*                                                                         *)
(* A JavaScript value is a primitive or a reference to a heap object, so   *)
(* that aliasing (two values naming the same object) and in-place mutation *)
(* are part of the state.  Property keys and strings are sequences of      *)
(* one-character strings, so that `${pre}${key}` is real concatenation.    *)
(***************************************************************************)
EXTENDS Integers, Sequences, FiniteSets, TLC

VARIABLES heap, args, ret, pre, pc, steps, touched

vars == <<heap, args, ret, pre, pc, steps, touched>>

(***************************************************************************)
(* Bounds of the model.                                                    *)
(***************************************************************************)
MaxTime == 1
MaxListLen == 1
MaxMut == 2
MaxSources == 2
MaxKeyLen == 2
MaxCalls == 2
MaxKeys == 2

(***************************************************************************)
(* JavaScript values.  t is the value's typeof, except that null carries   *)
(* its own tag (see typeof); n is a number or a boolean (1/0), s a string, *)
(* a the address of the object an "object" value refers to.                *)
(***************************************************************************)
Undefined == [t |-> "undefined", n |-> 0, s |-> <<>>, a |-> 0]
Null == [t |-> "null", n |-> 0, s |-> <<>>, a |-> 0]
Num(x) == [t |-> "number", n |-> x, s |-> <<>>, a |-> 0]
Bool(b) == [t |-> "boolean", n |-> IF b THEN 1 ELSE 0, s |-> <<>>, a |-> 0]
Str(x) == [t |-> "string", n |-> 0, s |-> x, a |-> 0]
Ref(x) == [t |-> "object", n |-> 0, s |-> <<>>, a |-> x]

typeof(v) == IF v.t = "null" THEN "object" ELSE v.t

\* ToBoolean, as used by the ! operator.
ToBoolean(v) ==
    CASE v.t = "undefined" -> FALSE
      [] v.t = "null" -> FALSE
      [] v.t = "boolean" -> v.n = 1
      [] v.t = "number" -> v.n # 0
      [] v.t = "string" -> v.s # <<>>
      [] OTHER -> TRUE

(***************************************************************************)
(* Heap objects.  class is the constructor: "Object" for {} literals,      *)
(* "Array", "Date".  time is a Date's getTime(); items are an Array's      *)
(* elements; props are the own enumerable string-keyed properties in       *)
(* insertion order (a Date can carry some: Object.assign adds them).       *)
(***************************************************************************)
NewObject(props) == [class |-> "Object", time |-> 0, items |-> <<>>, props |-> props]
NewArray(items) == [class |-> "Array", time |-> 0, items |-> items, props |-> <<>>]
NewDate(time) == [class |-> "Date", time |-> time, items |-> <<>>, props |-> <<>>]

IsRef(v) == v.t = "object"

\* obj instanceof Date / Array / Object, and Array.isArray(obj).
InstanceofDate(h, v) == IsRef(v) /\ h[v.a].class = "Date"
InstanceofArray(h, v) == IsRef(v) /\ h[v.a].class = "Array"
InstanceofObject(h, v) == IsRef(v) /\ h[v.a].class \in {"Object", "Array", "Date"}
IsArray(h, v) == IsRef(v) /\ h[v.a].class = "Array"

\* Object.keys(o): the own enumerable string keys, in insertion order.
ObjectKeys(o) == [i \in 1..Len(o.props) |-> o.props[i].key]

\* key in obj.  The keys of the model are never names that Object.prototype
\* defines, so the property is found iff it is an own property.
HasProperty(o, key) == \E i \in 1..Len(o.props) : o.props[i].key = key

\* o[key]: undefined when absent.
GetOwn(o, key) ==
    IF HasProperty(o, key)
    THEN o.props[CHOOSE i \in 1..Len(o.props) : o.props[i].key = key].val
    ELSE Undefined

\* v[key] for a value v that is not null or undefined.
Get(h, v, key) == IF IsRef(v) THEN GetOwn(h[v.a], key) ELSE Undefined

\* o[key] = val: an existing key keeps its position, a new key is appended.
SetOwn(o, key, val) ==
    IF HasProperty(o, key)
    THEN [o EXCEPT !.props =
            [i \in 1..Len(o.props) |->
                IF o.props[i].key = key THEN [key |-> key, val |-> val] ELSE o.props[i]]]
    ELSE [o EXCEPT !.props = Append(o.props, [key |-> key, val |-> val])]

\* delete o[key]
DeleteOwn(o, key) ==
    [o EXCEPT !.props = SelectSeq(o.props, LAMBDA e : e.key # key)]

HeapSet(h, a, key, val) == [h EXCEPT ![a] = SetOwn(h[a], key, val)]

\* new: the object gets the next free address.
Allocate(h, o) == [h |-> Append(h, o), v |-> Ref(Len(h) + 1)]

(***************************************************************************)
(* Deep values: what a value looks like to a reader that follows every     *)
(* reference.  Two values are deep-equal iff their deep values are equal;  *)
(* key order is not part of it.                                            *)
(***************************************************************************)
RECURSIVE DeepValue(_, _)
DeepValue(h, v) ==
    IF ~IsRef(v)
    THEN [t |-> v.t, n |-> v.n, s |-> v.s, items |-> <<>>, props |-> {}]
    ELSE LET o == h[v.a] IN
         [t |-> o.class, n |-> o.time, s |-> <<>>,
          items |-> [i \in 1..Len(o.items) |-> DeepValue(h, o.items[i])],
          props |-> {[key |-> o.props[i].key, val |-> DeepValue(h, o.props[i].val)] :
                        i \in 1..Len(o.props)}]

DeepEqual(h1, v1, h2, v2) == DeepValue(h1, v1) = DeepValue(h2, v2)

\* The addresses of the objects reachable from v.
RECURSIVE Reach(_, _)
Reach(h, v) ==
    IF ~IsRef(v) THEN {}
    ELSE LET o == h[v.a] IN
         {v.a} \cup UNION {Reach(h, o.items[i]) : i \in 1..Len(o.items)}
               \cup UNION {Reach(h, o.props[i].val) : i \in 1..Len(o.props)}

(***************************************************************************)
(* Literals: the values a caller writes down, as trees.  Build(h, lit)     *)
(* evaluates the literal, allocating one fresh object per list, record and *)
(* date of it.                                                             *)
(***************************************************************************)
LPrim(v) == [t |-> v.t, n |-> v.n, s |-> v.s, items |-> <<>>, props |-> <<>>]
LDate(time) == [t |-> "Date", n |-> time, s |-> <<>>, items |-> <<>>, props |-> <<>>]
LList(items) == [t |-> "Array", n |-> 0, s |-> <<>>, items |-> items, props |-> <<>>]
LRec(props) == [t |-> "Object", n |-> 0, s |-> <<>>, items |-> <<>>, props |-> props]
LEntry(key, lit) == [key |-> key, val |-> lit]

RECURSIVE Build(_, _), BuildItems(_, _), BuildProps(_, _)
Build(h, lit) ==
    IF lit.t \notin {"Object", "Array", "Date"}
    THEN [h |-> h, v |-> [t |-> lit.t, n |-> lit.n, s |-> lit.s, a |-> 0]]
    ELSE LET ri == BuildItems(h, lit.items)
             rp == BuildProps(ri.h, lit.props)
         IN  Allocate(rp.h, [class |-> lit.t, time |-> lit.n,
                             items |-> ri.vs, props |-> rp.vs])

BuildItems(h, lits) ==
    IF lits = <<>> THEN [h |-> h, vs |-> <<>>]
    ELSE LET r == Build(h, Head(lits))
             rest == BuildItems(r.h, Tail(lits))
         IN  [h |-> rest.h, vs |-> <<r.v>> \o rest.vs]

BuildProps(h, entries) ==
    IF entries = <<>> THEN [h |-> h, vs |-> <<>>]
    ELSE LET r == Build(h, Head(entries).val)
             rest == BuildProps(r.h, Tail(entries))
         IN  [h |-> rest.h, vs |-> <<[key |-> Head(entries).key, val |-> r.v]>> \o rest.vs]

\* The arguments of a call, evaluated left to right.
BuildArgs(lits) == BuildItems(<<>>, lits)

(***************************************************************************)
(* deepClone                                                               *)
(***************************************************************************)
\* new Date(obj.getTime())
CloneDate(h, v) == Allocate(h, NewDate(h[v.a].time))

RECURSIVE deepClone(_, _), CloneItems(_, _), CloneEntries(_, _)
deepClone(h, obj) ==
    IF obj.t = "null" \/ typeof(obj) # "object" THEN [h |-> h, v |-> obj]
    ELSE IF InstanceofDate(h, obj) THEN CloneDate(h, obj)
    ELSE IF InstanceofArray(h, obj) THEN
        LET r == CloneItems(h, h[obj.a].items) IN Allocate(r.h, NewArray(r.vs))
    ELSE IF InstanceofObject(h, obj) THEN
        LET r == CloneEntries(h, h[obj.a].props) IN Allocate(r.h, NewObject(r.vs))
    ELSE [h |-> h, v |-> obj]

\* obj.map((item) => deepClone(item))
CloneItems(h, items) ==
    IF items = <<>> THEN [h |-> h, vs |-> <<>>]
    ELSE LET r == deepClone(h, Head(items))
             rest == CloneItems(r.h, Tail(items))
         IN  [h |-> rest.h, vs |-> <<r.v>> \o rest.vs]

\* A copy of the entries that does not clone the values.
CloneEntriesShallow(h, entries) == [h |-> h, vs |-> entries]

\* Object.entries(obj).map(([key, value]) => [key, deepClone(value)])
CloneEntries(h, entries) ==
    IF entries = <<>> THEN [h |-> h, vs |-> <<>>]
    ELSE LET r == deepClone(h, Head(entries).val)
             rest == CloneEntries(r.h, Tail(entries))
         IN  [h |-> rest.h, vs |-> <<[key |-> Head(entries).key, val |-> r.v]>> \o rest.vs]

(***************************************************************************)
(* pick and omit.  keys is an Array of strings.                            *)
(***************************************************************************)
\* Moves the property: copies it and deletes it from obj.
PickStepMove(h, acc, obj, key) ==
    IF HasProperty(h[obj.a], key.s)
    THEN LET h1 == HeapSet(h, acc.a, key.s, Get(h, obj, key.s))
         IN  [h1 EXCEPT ![obj.a] = DeleteOwn(h1[obj.a], key.s)]
    ELSE h

\* if (key in obj) acc[key] = obj[key]
PickStep(h, acc, obj, key) ==
    IF HasProperty(h[obj.a], key.s)
    THEN HeapSet(h, acc.a, key.s, Get(h, obj, key.s))
    ELSE h

RECURSIVE PickKeys(_, _, _, _)
PickKeys(h, acc, obj, keys) ==
    IF keys = <<>> THEN h
    ELSE PickKeys(PickStep(h, acc, obj, Head(keys)), acc, obj, Tail(keys))

\* keys.reduce((acc, key) => ..., {})
pick(h, obj, keys) ==
    LET r == Allocate(h, NewObject(<<>>))
    IN  [h |-> PickKeys(r.h, r.v, obj, h[keys.a].items), v |-> r.v]

\* Looks at the first key of the list only.
OmitKeepsFirstOnly(h, keys, key) ==
    h[keys.a].items = <<>> \/ h[keys.a].items[1] # Str(key)

\* !keys.includes(key)
OmitKeeps(h, keys, key) ==
    ~\E i \in 1..Len(h[keys.a].items) : h[keys.a].items[i] = Str(key)

\* Object.fromEntries(Object.entries(obj).filter(([key]) => !keys.includes(key)))
omit(h, obj, keys) ==
    Allocate(h, NewObject(SelectSeq(h[obj.a].props, LAMBDA e : OmitKeeps(h, keys, e.key))))

(***************************************************************************)
(* fromEntries.  entries is an Array of [key, value] Arrays.               *)
(***************************************************************************)
\* acc[key] = value
EntryStep(h, acc, entry) ==
    HeapSet(h, acc.a, h[entry.a].items[1].s, h[entry.a].items[2])

RECURSIVE EntrySteps(_, _, _)
EntrySteps(h, acc, entries) ==
    IF entries = <<>> THEN h
    ELSE EntrySteps(EntryStep(h, acc, Head(entries)), acc, Tail(entries))

\* entries.reduce((acc, [key, value]) => ..., {})
fromEntries(h, entries) ==
    LET r == Allocate(h, NewObject(<<>>))
    IN  [h |-> EntrySteps(r.h, r.v, h[entries.a].items), v |-> r.v]

(***************************************************************************)
(* isObject and deepMerge                                                  *)
(***************************************************************************)
isObject(h, item) == item.t # "null" /\ typeof(item) = "object" /\ ~IsArray(h, item)

\* Installs the source's own value instead of a fresh record.
MergeEnsureShared(h, target, key, sv) ==
    IF ~ToBoolean(Get(h, target, key)) THEN HeapSet(h, target.a, key, sv) ELSE h

\* Overwrites target[key] by the source's own record.
MergeEnsureOverwrite(h, target, key, sv) == HeapSet(h, target.a, key, sv)

\* Replaces whatever target[key] holds by a fresh record.
MergeEnsureAlways(h, target, key, sv) ==
    LET r == Allocate(h, NewObject(<<>>)) IN HeapSet(r.h, target.a, key, r.v)

\* if (!target[key]) Object.assign(target, { [key]: {} })
\* (sv is source[key]; the code does not read it here)
MergeEnsure(h, target, key, sv) ==
    IF ~ToBoolean(Get(h, target, key))
    THEN LET r == Allocate(h, NewObject(<<>>)) IN HeapSet(r.h, target.a, key, r.v)
    ELSE h

\* Object.assign(target, { [key]: source[key] })
MergeAssign(h, target, key, sv) == HeapSet(h, target.a, key, sv)

RECURSIVE deepMerge(_, _, _), MergeKeys(_, _, _, _)
deepMerge(h, target, sources) ==
    IF Len(sources) = 0 THEN [h |-> h, v |-> target]
    ELSE LET source == Head(sources) IN
         IF source = Undefined THEN [h |-> h, v |-> target]
         ELSE LET h1 == IF isObject(h, target) /\ isObject(h, source)
                        THEN MergeKeys(h, target, source, ObjectKeys(h[source.a]))
                        ELSE h
              IN  deepMerge(h1, target, Tail(sources))

\* Object.keys(source).forEach((key) => ...)
MergeKeys(h, target, source, keys) ==
    IF keys = <<>> THEN h
    ELSE LET key == Head(keys)
             sv == Get(h, source, key)
             h1 == IF isObject(h, sv)
                   THEN LET h2 == MergeEnsure(h, target, key, sv)
                        IN  deepMerge(h2, Get(h2, target, key), <<Get(h2, source, key)>>).h
                   ELSE MergeAssign(h, target, key, sv)
         IN  MergeKeys(h1, target, source, Tail(keys))

(***************************************************************************)
(* flattenObject                                                           *)
(***************************************************************************)
\* The prefix with no separating dot.
PathPrefixNoDot(prefix) == prefix

\* const pre = prefix.length ? `${prefix}.` : ""
PathPrefix(prefix) == IF Len(prefix) # 0 THEN prefix \o <<".">> ELSE <<>>

\* typeof value === "object" && value !== null && !Array.isArray(value)
FlattenRecurses(h, value) ==
    typeof(value) = "object" /\ value.t # "null" /\ ~IsArray(h, value)

\* Object.assign(acc, src): src's own entries, in order, written to acc.
RECURSIVE AssignAll(_, _, _)
AssignAll(h, acc, entries) ==
    IF entries = <<>> THEN h
    ELSE AssignAll(HeapSet(h, acc.a, Head(entries).key, Head(entries).val),
                   acc, Tail(entries))

RECURSIVE flattenObject(_, _, _), FlattenKeys(_, _, _, _, _)
flattenObject(h, obj, prefix) ==
    LET r == Allocate(h, NewObject(<<>>))
    IN  [h |-> FlattenKeys(r.h, r.v, obj, prefix, ObjectKeys(h[obj.a])), v |-> r.v]

\* Object.keys(obj).reduce((acc, key) => ..., {})
FlattenKeys(h, acc, obj, prefix, keys) ==
    IF keys = <<>> THEN h
    ELSE LET key == Head(keys)
             value == Get(h, obj, key)
             h1 == IF FlattenRecurses(h, value)
                   THEN LET r == flattenObject(h, value, PathPrefix(prefix) \o key)
                        IN  AssignAll(r.h, acc, r.h[r.v.a].props)
                   ELSE HeapSet(h, acc.a, PathPrefix(prefix) \o key, value)
         IN  FlattenKeys(h1, acc, obj, prefix, Tail(keys))

(***************************************************************************)
(* Callers' writes to an object they hold: the ways a caller can change a  *)
(* record, a list or a date in place.                                      *)
(***************************************************************************)
KeyA == <<"a">>
KeyB == <<"b">>
Keys == {KeyA, KeyB}
Marker == Str(<<"m">>)

Writes(o) ==
    CASE o.class = "Object" ->
            {SetOwn(o, k, Marker) : k \in Keys} \cup {DeleteOwn(o, k) : k \in Keys}
      [] o.class = "Array" ->
            {[o EXCEPT !.items = Append(o.items, Marker)]}
                \cup (IF o.items = <<>> THEN {} ELSE {[o EXCEPT !.items = Tail(o.items)]})
      [] OTHER -> {[o EXCEPT !.time = o.time + 1]}

\* One write to an object reachable from root.
Mutate(root, who) ==
    /\ steps < MaxMut
    /\ \E a \in Reach(heap, root) : \E o \in Writes(heap[a]) :
          /\ o # heap[a]
          /\ heap' = [heap EXCEPT ![a] = o]
    /\ steps' = steps + 1
    /\ touched' = touched \cup {who}
    /\ UNCHANGED <<args, ret, pre, pc>>

\* A caller has evaluated the argument literals; no call has been made.
StartWith(lits, noResult) ==
    LET b == BuildArgs(lits) IN
    /\ heap = b.h
    /\ args = b.vs
    /\ ret = noResult
    /\ pre = b.h
    /\ pc = "start"
    /\ steps = 0
    /\ touched = {}

(***************************************************************************)
(* Bounded sets of literals.                                               *)
(***************************************************************************)
ListsOf(C) == {LList(s) : s \in UNION {[1..n -> C] : n \in 0..MaxListLen}}
EmptyRec == LRec(<<>>)
\* Records of at most one entry, and records holding both keys.
RecsOf(C) == {EmptyRec} \cup {LRec(<<LEntry(k, c)>>) : k \in Keys, c \in C}
PairsOf(C) == {LRec(<<LEntry(KeyA, c), LEntry(KeyB, d)>>) : c \in C, d \in C}

(***************************************************************************)
(* SpecClone: deepClone(v), then any writes to the clone and to v.         *)
(***************************************************************************)
CloneLeaves == {LPrim(Null), LPrim(Num(1))} \cup {LDate(time) : time \in 0..MaxTime}
CloneLevel1 == ListsOf(CloneLeaves) \cup RecsOf(CloneLeaves)
CloneNested == {LRec(<<LEntry(KeyA, LDate(MaxTime))>>), LList(<<LPrim(Null)>>)}

InitClone ==
    \E lit \in CloneLeaves \cup ListsOf(CloneLeaves \cup CloneNested)
                \cup RecsOf(CloneLeaves \cup CloneLevel1) \cup PairsOf(CloneLeaves) :
        StartWith(<<lit>>, Undefined)

CallDeepClone ==
    /\ pc = "start"
    /\ LET r == deepClone(heap, args[1]) IN
        /\ heap' = r.h
        /\ ret' = r.v
    /\ pre' = heap
    /\ pc' = "cloned"
    /\ UNCHANGED <<args, steps, touched>>

MutateClone == pc = "cloned" /\ Mutate(ret, "clone")
MutateSource == pc = "cloned" /\ Mutate(args[1], "source")

NextClone == CallDeepClone \/ MutateClone \/ MutateSource
SpecClone == InitClone /\ [][NextClone]_vars

\* C1: the clone is deep-equal to its source; writes to the clone are never
\* seen in the source, writes to the source are never seen in the clone, and
\* the two share no object.
CloneIndependent ==
    pc = "cloned" =>
        /\ "source" \notin touched => DeepEqual(heap, args[1], pre, args[1])
        /\ "clone" \notin touched => DeepEqual(heap, ret, pre, args[1])
        /\ Reach(heap, ret) \cap Reach(heap, args[1]) = {}

\* A nested source whose clone has been written to twice and now differs.
CloneIndependentWitness ==
    /\ pc = "cloned"
    /\ touched = {"clone"}
    /\ steps >= 2
    /\ Cardinality(Reach(pre, args[1])) >= 2
    /\ ~DeepEqual(heap, ret, heap, args[1])

(***************************************************************************)
(* SpecMerge: deepMerge(target, s1, ..., sn) on records built apart, so    *)
(* that the target shares no object with a source.                         *)
(***************************************************************************)
AList == LList(<<LPrim(Num(1))>>)
MergeLeaves == {LPrim(Num(0)), LPrim(Num(1)), LDate(0), AList}
MergeInner == RecsOf({LPrim(Num(1)), AList})
MergePairs == PairsOf({LPrim(Num(1)), LRec(<<LEntry(KeyB, LPrim(Num(1)))>>)})
MergeSources == RecsOf(MergeLeaves \cup MergeInner) \cup MergePairs
MergeTargets ==
    RecsOf(MergeLeaves \cup {LPrim(Str(<<"a">>)), LPrim(Bool(TRUE))} \cup MergeInner)

\* The sources are built one by one, or one source is passed twice.
InitMerge ==
    \/ \E target \in MergeTargets :
       \E n \in 0..MaxSources : \E sources \in [1..n -> MergeSources] :
          StartWith(<<target>> \o sources, Undefined)
    \/ \E target \in MergeTargets : \E source \in MergeSources :
          LET b == BuildArgs(<<target, source>>) IN
          /\ heap = b.h
          /\ args = <<b.vs[1], b.vs[2], b.vs[2]>>
          /\ ret = Undefined
          /\ pre = b.h
          /\ pc = "start"
          /\ steps = 0
          /\ touched = {}

CallDeepMerge ==
    /\ pc = "start"
    /\ LET r == deepMerge(heap, Head(args), Tail(args)) IN
        /\ heap' = r.h
        /\ ret' = r.v
    /\ pre' = heap
    /\ pc' = "merged"
    /\ UNCHANGED <<args, steps, touched>>

NextMerge == CallDeepMerge
SpecMerge == InitMerge /\ [][NextMerge]_vars

\* The shape a claim calls a plain record, and a record's key set.
PlainRecord(h, v) == IsRef(v) /\ h[v.a].class = "Object"
KeySet(h, v) == IF IsRef(v) THEN {h[v.a].props[i].key : i \in 1..Len(h[v.a].props)} ELSE {}

\* Record t of the current heap holds every entry of record s of heap hs.
HoldsEntries(t, hs, s) ==
    \A j \in KeySet(hs, s) :
        j \in KeySet(heap, t) /\ DeepEqual(heap, Get(heap, t, j), hs, Get(hs, s, j))

\* C2 as stated: merging a record s[k] into a target[k] that is absent or
\* of any other shape leaves target[k] a plain record holding every entry
\* of s[k].
MergeReplacesNonRecord ==
    (pc = "merged" /\ Len(args) = 2) =>
        \A k \in KeySet(pre, args[2]) :
            (PlainRecord(pre, Get(pre, args[2], k))
                /\ ~PlainRecord(pre, Get(pre, args[1], k)))
            => /\ PlainRecord(heap, Get(heap, args[1], k))
               /\ HoldsEntries(Get(heap, args[1], k), pre, Get(pre, args[2], k))

\* C3 as stated: a value s[k] that is not a plain record ends up in
\* target[k] itself, by reference.
MergeAssignsNonRecord ==
    (pc = "merged" /\ Len(args) = 2) =>
        \A k \in KeySet(pre, args[2]) :
            ~PlainRecord(pre, Get(pre, args[2], k))
            => Get(heap, args[1], k) = Get(pre, args[2], k)

\* The last source that holds key k, among args[2..].
LastWith(k) == CHOOSE j \in 2..Len(args) :
    /\ k \in KeySet(pre, args[j])
    /\ \A m \in (j + 1)..Len(args) : k \notin KeySet(pre, args[m])

\* C4 as stated: on a key held by two sources the later one decides:
\* target[k] is its value itself, or a plain record holding its entries.
MergeLaterSourceWins ==
    (pc = "merged" /\ Len(args) >= 3) =>
        \A k \in Keys :
            (\E i, j \in 2..Len(args) :
                i < j /\ k \in KeySet(pre, args[i]) /\ k \in KeySet(pre, args[j]))
            => LET sv == Get(pre, args[LastWith(k)], k)
                   tv == Get(heap, args[1], k)
               IN  IF PlainRecord(pre, sv)
                   THEN PlainRecord(heap, tv) /\ HoldsEntries(tv, pre, sv)
                   ELSE tv = sv

\* C5: after deepMerge every object reachable from a source is what it was
\* before the call.
MergeSourcesUnchanged ==
    pc = "merged" =>
        \A i \in 2..Len(args) : \A a \in Reach(pre, args[i]) : heap[a] = pre[a]

\* Two sources hold the same key with different shapes, and the target changed.
MergeSourcesUnchangedWitness ==
    /\ pc = "merged"
    /\ Len(args) = 3
    /\ \E k \in KeySet(pre, args[2]) \cap KeySet(pre, args[3]) :
          /\ PlainRecord(pre, Get(pre, args[2], k))
          /\ ~PlainRecord(pre, Get(pre, args[3], k))
    /\ \E k \in KeySet(pre, args[2]) \cap KeySet(pre, args[3]) :
          /\ PlainRecord(pre, Get(pre, args[2], k))
          /\ PlainRecord(pre, Get(pre, args[3], k))
          /\ KeySet(pre, Get(pre, args[3], k)) # {}
    /\ heap # pre

\* What deepMerge(t, s) leaves alone in record t, at every level: t's keys
\* become the union of both key sets, a key of t alone keeps its value, and
\* where both hold a plain record the same holds one level down.
RECURSIVE MergeFrame(_, _)
MergeFrame(t, s) ==
    /\ KeySet(heap, t) = KeySet(pre, t) \cup KeySet(pre, s)
    /\ \A k \in KeySet(pre, t) \ KeySet(pre, s) :
          /\ Get(heap, t, k) = Get(pre, t, k)
          /\ DeepEqual(heap, Get(heap, t, k), pre, Get(pre, t, k))
    /\ \A k \in KeySet(pre, t) \cap KeySet(pre, s) :
          (PlainRecord(pre, Get(pre, t, k)) /\ PlainRecord(pre, Get(pre, s, k)))
          => /\ Get(heap, t, k) = Get(pre, t, k)
             /\ MergeFrame(Get(pre, t, k), Get(pre, s, k))

\* C6: deepMerge(target, s) visits only the keys of s at every level: keys
\* of target alone are untouched and nested records combine their keys.
MergeVisitsSourceKeys ==
    (pc = "merged" /\ Len(args) = 2) => MergeFrame(args[1], args[2])

\* target[k] and s[k] are records with a key each that the other lacks.
MergeVisitsSourceKeysWitness ==
    /\ pc = "merged"
    /\ Len(args) = 2
    /\ \E k \in KeySet(pre, args[1]) \cap KeySet(pre, args[2]) :
          LET tv == Get(pre, args[1], k)
              sv == Get(pre, args[2], k)
          IN  /\ PlainRecord(pre, tv) /\ PlainRecord(pre, sv)
              /\ KeySet(pre, tv) \ KeySet(pre, sv) # {}
              /\ KeySet(pre, sv) \ KeySet(pre, tv) # {}
              /\ KeySet(heap, tv) = Keys

(***************************************************************************)
(* SpecMergeWrite: deepMerge(target, s1, ..., sn) on records built apart,  *)
(* then the caller's writes to the plain records of the result.            *)
(***************************************************************************)
\* The addresses of the plain records reachable from v by record keys only:
\* neither through a list nor through a date.
RECURSIVE RecordReach(_, _)
RecordReach(h, v) ==
    IF ~PlainRecord(h, v) THEN {}
    ELSE {v.a} \cup UNION {RecordReach(h, h[v.a].props[i].val) :
                              i \in 1..Len(h[v.a].props)}

\* The objects the sources held before the call.
SourceObjects == UNION {Reach(pre, args[i]) : i \in 2..Len(args)}

BRec == LRec(<<LEntry(KeyB, LPrim(Num(1)))>>)
WriteInner ==
    {EmptyRec, BRec, LRec(<<LEntry(KeyB, EmptyRec)>>), LRec(<<LEntry(KeyB, AList)>>),
     LList(<<BRec>>)}
WriteSources ==
    {LRec(<<LEntry(KeyA, v)>>) : v \in WriteInner}
        \cup {LRec(<<LEntry(KeyB, BRec)>>), LRec(<<LEntry(KeyA, BRec), LEntry(KeyB, EmptyRec)>>)}
WriteTargets ==
    {EmptyRec} \cup {LRec(<<LEntry(KeyA, v)>>) :
                        v \in {LPrim(Num(0)), LDate(0), BRec, LRec(<<LEntry(KeyB, EmptyRec)>>)}}

InitMergeWrite ==
    \E target \in WriteTargets :
    \E n \in 1..MaxSources : \E sources \in [1..n -> WriteSources] :
       StartWith(<<target>> \o sources, Undefined)

\* The caller adds, changes or deletes a key of a plain record of the result.
WriteMerged ==
    /\ pc \in {"merged", "written"}
    /\ steps < MaxMut
    /\ \E a \in RecordReach(heap, ret) : \E o \in Writes(heap[a]) :
          /\ o # heap[a]
          /\ heap' = [heap EXCEPT ![a] = o]
    /\ pc' = "written"
    /\ steps' = steps + 1
    /\ touched' = touched \cup {"result"}
    /\ UNCHANGED <<args, ret, pre>>

NextMergeWrite == CallDeepMerge \/ WriteMerged
SpecMergeWrite == InitMergeWrite /\ [][NextMergeWrite]_vars

\* C11: after deepMerge on a target built apart from the sources, every
\* plain record reachable from the target by record keys only already
\* belonged to the target or was allocated by the call, and is no object of
\* a source; whatever keys the caller then adds, changes or deletes in these
\* records, every source still reads as it did before the call.
MergeInstallsNoSourceRecord ==
    pc \in {"merged", "written"} =>
        /\ \A a \in RecordReach(heap, args[1]) :
              /\ a \in Reach(pre, args[1]) \/ a > Len(pre)
              /\ a \notin SourceObjects
        /\ \A i \in 2..Len(args) : DeepEqual(heap, args[i], pre, args[i])

\* A source held a plain record under a key, the result holds a record
\* allocated by the call there, and the caller's write to that record made it
\* differ from the source's.
MergeInstallsNoSourceRecordWitness ==
    /\ pc = "written"
    /\ \E k \in KeySet(pre, args[2]) :
          LET sv == Get(pre, args[2], k)
              tv == Get(heap, ret, k)
          IN  /\ PlainRecord(pre, sv)
              /\ PlainRecord(heap, tv)
              /\ tv.a > Len(pre)
              /\ KeySet(heap, tv) # KeySet(pre, sv)

(***************************************************************************)
(* SpecFlatten: flattenObject(r) on records whose keys are any text over   *)
(* the characters "a" and ".", the empty text included.                    *)
(***************************************************************************)
Chars == {"a", "."}
FlatKeys == UNION {[1..n -> Chars] : n \in 0..MaxKeyLen}
FlatLeaves == {LPrim(Num(1)), LDate(0), AList}
FlatRecsOf(C) == {EmptyRec} \cup {LRec(<<LEntry(k, c)>>) : k \in FlatKeys, c \in C}
FlatLevel1 == FlatRecsOf(FlatLeaves)
FlatLevel2 == FlatRecsOf(FlatLeaves \cup FlatLevel1)
FlatPairVals == FlatLeaves \cup FlatRecsOf({LPrim(Num(1))})

\* r has at most one entry and up to three levels, or two entries and up to
\* two levels.
InitFlatten ==
    \/ \E lit \in FlatRecsOf(FlatLeaves \cup FlatLevel2) :
          StartWith(<<lit>>, Undefined)
    \/ \E k \in FlatKeys : \E j \in FlatKeys \ {k} :
       \E c \in FlatPairVals : \E d \in FlatPairVals :
          StartWith(<<LRec(<<LEntry(k, c), LEntry(j, d)>>)>>, Undefined)

CallFlattenObject ==
    /\ pc = "start"
    /\ LET r == flattenObject(heap, args[1], <<>>) IN
        /\ heap' = r.h
        /\ ret' = r.v
    /\ pre' = heap
    /\ pc' = "flattened"
    /\ UNCHANGED <<args, steps, touched>>

NextFlatten == CallFlattenObject
SpecFlatten == InitFlatten /\ [][NextFlatten]_vars

\* The paths of record v of heap h that end in a value that is not a plain
\* record, each with that value; and the paths that end in a plain record.
RECURSIVE LeafPaths(_, _), RecordPaths(_, _)
LeafPaths(h, v) ==
    UNION {LET e == h[v.a].props[i] IN
           IF PlainRecord(h, e.val)
           THEN {[path |-> <<e.key>> \o p.path, val |-> p.val] : p \in LeafPaths(h, e.val)}
           ELSE {[path |-> <<e.key>>, val |-> e.val]} : i \in 1..Len(h[v.a].props)}

RecordPaths(h, v) ==
    UNION {LET e == h[v.a].props[i] IN
           IF PlainRecord(h, e.val)
           THEN {<<e.key>>} \cup {<<e.key>> \o p : p \in RecordPaths(h, e.val)}
           ELSE {} : i \in 1..Len(h[v.a].props)}

\* A path's keys joined with ".".
RECURSIVE Join(_)
Join(path) ==
    IF Len(path) = 1 THEN path[1] ELSE path[1] \o <<".">> \o Join(Tail(path))

IsListOrDate(h, v) == IsRef(v) /\ h[v.a].class \in {"Array", "Date"}
NoListOrDate(h, v) == \A p \in LeafPaths(h, v) : ~IsListOrDate(h, p.val)
HasDot(key) == \E i \in 1..Len(key) : key[i] = "."
AllKeys(h, v) == UNION {{p.path[i] : i \in 1..Len(p.path)} : p \in LeafPaths(h, v)}
                    \cup UNION {{p[i] : i \in 1..Len(p)} : p \in RecordPaths(h, v)}

\* C7 as stated: a list or a date-like value is a leaf: it is the value of
\* the entry at its dot-joined path.
FlattenKeepsListsAndDates ==
    pc = "flattened" =>
        \A p \in LeafPaths(pre, args[1]) :
            IsListOrDate(pre, p.val)
            => /\ Join(p.path) \in KeySet(heap, ret)
               /\ Get(heap, ret, Join(p.path)) = p.val

\* The four parts of C8, for the flattened record r = args[1].
FlattenExact ==
    /\ KeySet(heap, ret) = {Join(p.path) : p \in LeafPaths(pre, args[1])}
    /\ \A p \in LeafPaths(pre, args[1]) : Get(heap, ret, Join(p.path)) = p.val
    /\ \A p, q \in LeafPaths(pre, args[1]) : p.path # q.path => Join(p.path) # Join(q.path)
    /\ \A p \in RecordPaths(pre, args[1]) : Join(p) \notin KeySet(heap, ret)

\* C8 as stated: for a record without lists and dates, whatever text its
\* keys are, the result's keys are exactly the dot-joined leaf paths.
FlattenLeafPathsAnyKeys ==
    (pc = "flattened" /\ NoListOrDate(pre, args[1])) => FlattenExact

\* C8 amended: the same, for records none of whose keys holds a "." and
\* whose top-level empty key, if any, holds no record.
FlattenLeafPaths ==
    (/\ pc = "flattened"
     /\ NoListOrDate(pre, args[1])
     /\ \A k \in AllKeys(pre, args[1]) : ~HasDot(k)
     /\ ~PlainRecord(pre, Get(pre, args[1], <<>>)))
    => FlattenExact

\* Two leaves, one of them nested, under keys without dots.
FlattenLeafPathsWitness ==
    /\ pc = "flattened"
    /\ NoListOrDate(pre, args[1])
    /\ \A k \in AllKeys(pre, args[1]) : ~HasDot(k)
    /\ ~PlainRecord(pre, Get(pre, args[1], <<>>))
    /\ Cardinality(KeySet(heap, ret)) = 2
    /\ \E p \in LeafPaths(pre, args[1]) : Len(p.path) = 2

(***************************************************************************)
(* SpecPure: callers of deepClone, pick, omit, flattenObject and           *)
(* fromEntries share one record r, one key list and one entry list, and    *)
(* call in any order.  ret is the log of the calls made, each with the     *)
(* value it returned.                                                      *)
(***************************************************************************)
PureVals == {LPrim(Num(1)), LDate(0), AList, LRec(<<LEntry(KeyA, LPrim(Num(1)))>>)}
PureRecords == RecsOf(PureVals) \cup PairsOf({LPrim(Num(1)), LRec(<<LEntry(KeyA, LPrim(Num(1)))>>)})
KeyLists == {LList(ks) : ks \in UNION {[1..n -> {LPrim(Str(k)) : k \in Keys}] : n \in 0..MaxKeys}}
EntryLits == {LList(<<LPrim(Str(KeyA)), v>>) : v \in {LPrim(Num(0)), AList}}
EntryLists == ListsOf(EntryLits)
Ops == {"deepClone", "pick", "omit", "flattenObject", "fromEntries"}

\* The call op run alone on arguments <<r, keys, entries>> in heap h.
Apply(op, h, as) ==
    CASE op = "deepClone" -> deepClone(h, as[1])
      [] op = "pick" -> pick(h, as[1], as[2])
      [] op = "omit" -> omit(h, as[1], as[2])
      [] op = "flattenObject" -> flattenObject(h, as[1], <<>>)
      [] OTHER -> fromEntries(h, as[3])

InitPure ==
    \E r \in PureRecords : \E ks \in KeyLists : \E es \in EntryLists :
        StartWith(<<r, ks, es>>, <<>>)

\* A call returns: its result joins the log.
Returns(op, r) ==
    /\ heap' = r.h
    /\ ret' = Append(ret, [op |-> op, v |-> r.v])
    /\ pc' = "called"
    /\ UNCHANGED <<args, pre, steps, touched>>

CallClone ==
    /\ Len(ret) < MaxCalls
    /\ Returns("deepClone", deepClone(heap, args[1]))

CallPick ==
    /\ Len(ret) < MaxCalls
    /\ Returns("pick", pick(heap, args[1], args[2]))

CallOmit ==
    /\ Len(ret) < MaxCalls
    /\ Returns("omit", omit(heap, args[1], args[2]))

CallFlatten ==
    /\ Len(ret) < MaxCalls
    /\ Returns("flattenObject", flattenObject(heap, args[1], <<>>))

CallFromEntries ==
    /\ Len(ret) < MaxCalls
    /\ Returns("fromEntries", fromEntries(heap, args[3]))

NextPure == CallClone \/ CallPick \/ CallOmit \/ CallFlatten \/ CallFromEntries
SpecPure == InitPure /\ [][NextPure]_vars

\* The list of keys, as a set of keys.
ListedKeys(h, keys) == {h[keys.a].items[i].s : i \in 1..Len(h[keys.a].items)}

\* C9: when every listed key is a key of r, pick(r, K) and omit(r, K) split
\* r's entries: disjoint key sets, together r's key set, values as in r.
PickOmitPartition ==
    \A i, j \in 1..Len(ret) :
        (/\ ret[i].op = "pick"
         /\ ret[j].op = "omit"
         /\ ListedKeys(pre, args[2]) \subseteq KeySet(pre, args[1]))
        => /\ KeySet(heap, ret[i].v) \cap KeySet(heap, ret[j].v) = {}
           /\ KeySet(heap, ret[i].v) \cup KeySet(heap, ret[j].v) = KeySet(pre, args[1])
           /\ \A k \in KeySet(heap, ret[i].v) : Get(heap, ret[i].v, k) = Get(pre, args[1], k)
           /\ \A k \in KeySet(heap, ret[j].v) : Get(heap, ret[j].v, k) = Get(pre, args[1], k)

\* Both results are non-empty and the key list repeats a key.
PickOmitPartitionWitness ==
    /\ Len(ret) = 2
    /\ ret[1].op = "pick"
    /\ ret[2].op = "omit"
    /\ ListedKeys(pre, args[2]) \subseteq KeySet(pre, args[1])
    /\ Len(pre[args[2].a].items) = 2
    /\ Cardinality(ListedKeys(pre, args[2])) = 1
    /\ KeySet(heap, ret[1].v) # {}
    /\ KeySet(heap, ret[2].v) # {}

\* C10: no call changes an object reachable from its arguments, so each
\* call of an interleaving returns what it returns when run alone on the
\* arguments as they first were.
PureCallsLeaveArguments ==
    /\ \A i \in 1..Len(args) : \A a \in Reach(pre, args[i]) : heap[a] = pre[a]
    /\ \A i \in 1..Len(ret) :
          LET alone == Apply(ret[i].op, pre, args)
          IN  DeepEqual(heap, ret[i].v, alone.h, alone.v)

\* Two calls were made on a record that holds a nested record.
PureCallsLeaveArgumentsWitness ==
    /\ Len(ret) = 2
    /\ ret[1].op = "pick"
    /\ ret[2].op = "flattenObject"
    /\ KeySet(heap, ret[1].v) # {}
    /\ \E k \in KeySet(pre, args[1]) : PlainRecord(pre, Get(pre, args[1], k))

====
